---- MODULE Spec2Model ----
(***************************************************************************)
(* Position lists of the hyrise storage layer: the PosList revisions of    *)
(* src/lib/storage/pos_list.hpp (first, second and lazily materialising),  *)
(* and the polymorphic family AbstractPosList / PosList /                  *)
(* MatchesAllPosList / SingleChunkPosList.                                 *)
(***************************************************************************)
EXTENDS Integers, Sequences, FiniteSets, TLC

(* ------------------------------ bounds -------------------------------- *)
\* chunk ids used by the producing operator are 0..MaxChunkID
MaxChunkID == 1
\* a chunk holds 0..MaxRows rows
MaxRows == 2
\* a materialized vector holds at most MaxLen entries
MaxLen == 2
\* distinct chunk objects (shared_ptr targets) per row count
NumChunkObjs == 2
\* threads that read one shared list at the same time
NumThreads == 2

(* ----------------------------- base types ----------------------------- *)
\* The reserved chunk id, the largest value of the id type; here the largest
\* number the model checker holds, above every chunk id in use.
INVALID_CHUNK_ID == 2147483647

ChunkIDs == 0..MaxChunkID
ChunkOffsets == 0..(MaxRows - 1)

\* struct RowID { ChunkID chunk_id; ChunkOffset chunk_offset; }
RowID(c, o) == [chunk_id |-> c, chunk_offset |-> o]
RowIDs == {RowID(c, o) : c \in ChunkIDs, o \in ChunkOffsets}

\* A chunk object is identified by <<tag, rows>>; shared_ptr equality is
\* identity of the object, Chunk::size() its row count.
Chunks == (1..NumChunkObjs) \X (0..MaxRows)
nullptr == <<0, 0>>
ChunkSize(ch) == ch[2]

\* the code revisions held by the repository
Revs == {"first", "second", "lazy", "poly"}

SeqsUpTo(S, n) == UNION {[1..k -> S] : k \in 0..n}

(* ------------------------------ state --------------------------------- *)
VARIABLES
  rev,      \* which revision of the position list code is built
  debug,    \* TRUE for a HYRISE_DEBUG build (DebugAssert is checked)
  pl,       \* the position list operated on
  other,    \* a second position list (comparand)
  last,     \* the last operation called and what it gave
  it,       \* the iteration in progress over pl
  readers,  \* the threads that read pl concurrently, and the list as constructed
  chunk_mutable,  \* TRUE while the chunk pl refers to is still being written
  filter,   \* a CountingQuotientFilter
  layout    \* a VizRecordLayout and the reference its caller holds into it

vars == <<rev, debug, pl, other, last, it, readers, chunk_mutable, filter, layout>>

\* what the calls on position lists leave alone
apart == <<chunk_mutable, filter, layout>>

\* no filter constructed: no hash bits, no slot, no value inserted
NoFilter == [hash_bits |-> 0, slots |-> <<>>, values |-> {}, occurrences |-> 0]

\* VizRecordLayout{}: no content; the caller holds no reference
NoLayout == [content |-> <<>>, capacity |-> 0, ref |-> [held |-> FALSE, valid |-> FALSE, idx |-> 0], added |-> <<>>]

\* the lists are over finalized chunks and there is no filter and no layout
Apart ==
  /\ chunk_mutable = FALSE
  /\ filter = NoFilter
  /\ layout = NoLayout

(* --------------------------- construction ----------------------------- *)
\* PosList(std::initializer_list<RowID>) and the other vector constructors
PosListFromVector(v) ==
  [kind |-> "PosList", vec |-> v, chunk |-> nullptr,
   chunk_id |-> INVALID_CHUNK_ID, single |-> FALSE,
   index |-> <<>>, range_begin |-> 1, range_end |-> 1]

\* void guarantee_single_chunk() { _references_single_chunk = true; }
guarantee_single_chunk(p) == [p EXCEPT !.single = TRUE]

\* a constructor over a whole chunk that forgets guarantee_single_chunk()
PosListMatchAllUnflagged(ch, c) ==
  [kind |-> "PosList", vec |-> <<>>, chunk |-> ch,
   chunk_id |-> c, single |-> FALSE,
   index |-> <<>>, range_begin |-> 1, range_end |-> 1]

\* explicit PosList(std::shared_ptr<const Chunk> matches_all_chunk, const ChunkID chunkID)
PosListMatchAll(ch, c) ==
  [kind |-> "PosList", vec |-> <<>>, chunk |-> ch,
   chunk_id |-> c, single |-> TRUE,
   index |-> <<>>, range_begin |-> 1, range_end |-> 1]

\* explicit MatchesAllPosList(std::shared_ptr<const Chunk> common_chunk, const ChunkID common_chunk_id)
MatchesAllPosList(ch, c) ==
  [kind |-> "MatchesAllPosList", vec |-> <<>>, chunk |-> ch,
   chunk_id |-> c, single |-> TRUE,
   index |-> <<>>, range_begin |-> 1, range_end |-> 1]

\* SingleChunkPosList(ChunkID chunkID), then range_begin / range_end are set
\* to two iterators into the offset sequence idx of an index
SingleChunkPosList(c, idx, b, e) ==
  [kind |-> "SingleChunkPosList", vec |-> <<>>, chunk |-> nullptr,
   chunk_id |-> c, single |-> TRUE,
   index |-> idx, range_begin |-> b, range_end |-> e]

(* ------------------------------ outcomes ------------------------------ *)
\* What a call gives: a returned value ("ret"), a failed Assert / DebugAssert /
\* Fail ("fail": std::logic_error), or, where the behaviour is undefined, any
\* value of the return type or a crash.  pl is the list after the call; v of a
\* call that did not return is a placeholder of the return type.
Ret(v, p) == [t |-> "ret", v |-> v, pl |-> p]
Failed(v, p) == [t |-> "fail", v |-> v, pl |-> p]
Crash(v, p) == [t |-> "crash", v |-> v, pl |-> p]
NoRow == RowID(INVALID_CHUNK_ID, 0)
Undefined(p) == {Ret(r, p) : r \in RowIDs} \cup {Crash(NoRow, p)}

(* ------------------------- lazy materialisation ----------------------- *)
\* bool matches_complete_chunk() const { return _matches_all_chunk != nullptr; }
matches_complete_chunk(p) == p.chunk # nullptr

\* void _materialize(): the three DebugAsserts, then the vector is filled with
\* {_matches_all_chunk_id, 0..chunk_size-1} and the chunk is released
materialize(p) ==
  IF debug /\ (p.chunk = nullptr \/ p.chunk_id = INVALID_CHUNK_ID \/ Len(p.vec) # 0)
  THEN [ok |-> FALSE, pl |-> p]
  ELSE [ok |-> TRUE,
        pl |-> [p EXCEPT !.vec = [i \in 1..ChunkSize(p.chunk) |-> RowID(p.chunk_id, i - 1)],
                         !.chunk = nullptr,
                         !.chunk_id = INVALID_CHUNK_ID]]

\* void _materialize_if_necessary()
materialize_if_necessary(p) ==
  IF matches_complete_chunk(p) THEN materialize(p) ELSE [ok |-> TRUE, pl |-> p]

(* ------------------------------ capacity ------------------------------ *)
\* first, second revision: using Vector::size
VectorSize(p) == Len(p.vec)

\* lazy revision: size_t size() const
LazySize(p) ==
  IF matches_complete_chunk(p) THEN ChunkSize(p.chunk) ELSE Len(p.vec)

\* MatchesAllPosList: size_t size() const { return _common_chunk->size(); }
MatchesAllSize(p) == ChunkSize(p.chunk)

\* SingleChunkPosList: std::distance(range_begin, range_end)
SingleChunkSize(p) == p.range_end - p.range_begin

\* size() of the list, by revision and dynamic type
size(p) ==
  CASE rev \in {"first", "second"} -> VectorSize(p)
    [] rev = "lazy" -> LazySize(p)
    [] rev = "poly" /\ p.kind = "PosList" -> VectorSize(p)
    [] rev = "poly" /\ p.kind = "MatchesAllPosList" -> MatchesAllSize(p)
    [] rev = "poly" /\ p.kind = "SingleChunkPosList" -> SingleChunkSize(p)

\* using Vector::empty
VectorEmpty(p) == p.vec = <<>>

\* SingleChunkPosList: return range_begin == range_end;
SingleChunkEmpty(p) == p.range_begin = p.range_end

\* empty() of the list, by revision and dynamic type
empty(p) ==
  CASE rev \in {"first", "second"} -> VectorEmpty(p)
    [] rev = "lazy" -> (LazySize(p) = 0)
    [] rev = "poly" /\ p.kind = "PosList" -> VectorEmpty(p)
    [] rev = "poly" /\ p.kind = "MatchesAllPosList" -> (MatchesAllSize(p) = 0)
    [] rev = "poly" /\ p.kind = "SingleChunkPosList" -> SingleChunkEmpty(p)

(* --------------------------- element access --------------------------- *)
\* Vector::operator[](n): unchecked; undefined for n >= size()
VectorIndex(p, n) ==
  IF n < Len(p.vec) THEN {Ret(p.vec[n + 1], p)} ELSE Undefined(p)

\* lazy revision: const_reference operator[](size_type n) const
LazyIndex(p, n) ==
  LET m == materialize_if_necessary(p)
  IN  IF ~m.ok THEN {Failed(NoRow, m.pl)} ELSE VectorIndex(m.pl, n)

\* MatchesAllPosList::operator[](size_t n)
MatchesAllIndex(p, n) ==
  IF debug /\ p.chunk_id = INVALID_CHUNK_ID
  THEN {Failed(NoRow, p)}
  ELSE {Ret(RowID(p.chunk_id, n), p)}

\* an operator[] that counts from the start of the index, not from range_begin
SingleChunkIndexFromIndexStart(p, n) ==
  IF n + 1 <= Len(p.index)
  THEN {Ret(RowID(p.chunk_id, p.index[n + 1]), p)}
  ELSE Undefined(p)

\* SingleChunkPosList::operator[](size_t n): *(std::next(range_begin, n)),
\* unchecked against range_end; undefined past the end of the index
SingleChunkIndex(p, n) ==
  IF p.range_begin + n <= Len(p.index)
  THEN {Ret(RowID(p.chunk_id, p.index[p.range_begin + n]), p)}
  ELSE Undefined(p)

\* operator[](n) of the list, by revision and dynamic type
operator_index(p, n) ==
  CASE rev \in {"first", "second"} -> VectorIndex(p, n)
    [] rev = "lazy" -> LazyIndex(p, n)
    [] rev = "poly" /\ p.kind = "PosList" -> VectorIndex(p, n)
    [] rev = "poly" /\ p.kind = "MatchesAllPosList" -> MatchesAllIndex(p, n)
    [] rev = "poly" /\ p.kind = "SingleChunkPosList" -> SingleChunkIndex(p, n)

(* ----------------------- single-chunk guarantee ----------------------- *)
\* std::all_of(cbegin(), cend(), row_id.chunk_id == (*this)[0].chunk_id)
AllSameChunk(v) == \A i \in 1..Len(v) : v[i].chunk_id = v[1].chunk_id

\* a references_single_chunk() without the scan of the debug build
VectorReferencesSingleChunkUnchecked(p) == Ret(p.single, p)

\* a references_single_chunk() that answers from the contents of the vector
VectorReferencesSingleChunkScanned(p) ==
  Ret(p.single \/ AllSameChunk(p.vec), p)

\* PosList::references_single_chunk() over the plain vector
VectorReferencesSingleChunk(p) ==
  IF p.single /\ debug /\ ~(VectorSize(p) = 0 \/ AllSameChunk(p.vec))
  THEN Failed(FALSE, p)
  ELSE Ret(p.single, p)

\* lazy revision: the scan reads (*this)[0] and cbegin(), which materialise
LazyReferencesSingleChunk(p) ==
  IF p.single /\ debug /\ LazySize(p) # 0
  THEN LET m == materialize_if_necessary(p)
       IN  IF ~m.ok \/ ~AllSameChunk(m.pl.vec)
           THEN Failed(FALSE, m.pl)
           ELSE Ret(m.pl.single, m.pl)
  ELSE IF debug /\ matches_complete_chunk(p) /\ ~p.single
       THEN Failed(FALSE, p)
       ELSE Ret(p.single, p)

\* references_single_chunk() of the list, by revision and dynamic type
references_single_chunk(p) ==
  CASE rev \in {"first", "second"} -> VectorReferencesSingleChunk(p)
    [] rev = "lazy" -> LazyReferencesSingleChunk(p)
    [] rev = "poly" /\ p.kind = "PosList" -> VectorReferencesSingleChunk(p)
    [] rev = "poly" /\ p.kind \in {"MatchesAllPosList", "SingleChunkPosList"} -> Ret(TRUE, p)

\* PosList::common_chunk_id() over the plain vector
VectorCommonChunkId(p) ==
  LET r == VectorReferencesSingleChunk(p)
  IN  IF debug /\ (r.t # "ret" \/ ~r.v) THEN Failed(INVALID_CHUNK_ID, p)
      ELSE IF VectorEmpty(p) THEN Failed(INVALID_CHUNK_ID, p)
      ELSE Ret(p.vec[1].chunk_id, p)

\* lazy revision: PosList::common_chunk_id()
LazyCommonChunkId(p) ==
  LET r == LazyReferencesSingleChunk(p)
      q == IF debug THEN r.pl ELSE p
  IN  IF debug /\ (r.t # "ret" \/ ~r.v) THEN Failed(INVALID_CHUNK_ID, q)
      ELSE IF LazySize(q) = 0 THEN Failed(INVALID_CHUNK_ID, q)
      ELSE IF matches_complete_chunk(q) THEN Ret(q.chunk_id, q)
      ELSE Ret(q.vec[1].chunk_id, q)

\* MatchesAllPosList::common_chunk_id()
MatchesAllCommonChunkId(p) ==
  IF debug /\ p.chunk_id = INVALID_CHUNK_ID
  THEN Failed(INVALID_CHUNK_ID, p)
  ELSE Ret(p.chunk_id, p)

\* SingleChunkPosList::common_chunk_id() { return _chunk_id; }
SingleChunkCommonChunkId(p) == Ret(p.chunk_id, p)

\* common_chunk_id() of the list, by revision and dynamic type
common_chunk_id(p) ==
  CASE rev \in {"first", "second"} -> VectorCommonChunkId(p)
    [] rev = "lazy" -> LazyCommonChunkId(p)
    [] rev = "poly" /\ p.kind = "PosList" -> VectorCommonChunkId(p)
    [] rev = "poly" /\ p.kind = "MatchesAllPosList" -> MatchesAllCommonChunkId(p)
    [] rev = "poly" /\ p.kind = "SingleChunkPosList" -> SingleChunkCommonChunkId(p)

(* ------------------------------ modifiers ----------------------------- *)
\* The modifiers exist on PosList only.  In the first and second revision and
\* in the polymorphic PosList they are the vector's own (using Vector::...);
\* the lazy revision materialises first.
BeforeModify(p) ==
  IF rev = "lazy" THEN materialize_if_necessary(p) ELSE [ok |-> TRUE, pl |-> p]

\* push_back(val) / emplace_back(args...)
push_back(p, r) ==
  LET m == BeforeModify(p)
  IN  IF ~m.ok THEN Failed(0, m.pl)
      ELSE Ret(0, [m.pl EXCEPT !.vec = Append(@, r)])

\* pop_back()
pop_back(p) ==
  LET m == BeforeModify(p)
  IN  IF ~m.ok THEN Failed(0, m.pl)
      ELSE Ret(0, [m.pl EXCEPT !.vec = SubSeq(@, 1, Len(@) - 1)])

\* insert(position, val), position = cbegin() + k
insert(p, k, r) ==
  LET m == BeforeModify(p)
  IN  IF ~m.ok THEN Failed(0, m.pl)
      ELSE Ret(0, [m.pl EXCEPT !.vec = SubSeq(@, 1, k) \o <<r>> \o SubSeq(@, k + 1, Len(@))])

\* resize(n, val)
resize(p, n, r) ==
  LET m == BeforeModify(p)
  IN  IF ~m.ok THEN Failed(0, m.pl)
      ELSE Ret(0, [m.pl EXCEPT !.vec = [i \in 1..n |-> IF i <= Len(@) THEN @[i] ELSE r]])

\* a clear() that would also withdraw the single-chunk guarantee
ClearResettingFlag(p) ==
  Ret(0, [p EXCEPT !.chunk = nullptr, !.chunk_id = INVALID_CHUNK_ID, !.vec = <<>>,
                   !.single = FALSE])

\* clear(): Vector::clear; the lazy revision also drops the chunk
clear(p) ==
  IF rev = "lazy"
  THEN Ret(0, [p EXCEPT !.chunk = nullptr, !.chunk_id = INVALID_CHUNK_ID, !.vec = <<>>])
  ELSE Ret(0, [p EXCEPT !.vec = <<>>])

\* PosList(PosList&& other): Vector(std::move(other)),
\* _references_single_chunk{other._references_single_chunk}; the chunk members
\* keep their defaults
MoveConstructed(p) ==
  [PosListFromVector(p.vec) EXCEPT !.single = p.single]

\* the length of the vector a modifier works on
ModifiedLen(p) ==
  IF rev = "lazy" /\ matches_complete_chunk(p) THEN ChunkSize(p.chunk) ELSE Len(p.vec)

(* ------------------------------ iteration ----------------------------- *)
\* An iterator: a Vector::iterator (pos, 1-based), a MatchesAllIterator (row)
\* or a PosListIterator (off = _chunk_offset, max = _max_size).
VectorIt(n) == [k |-> "vector", pos |-> n, row |-> NoRow, max |-> 0]
MatchesAllIt(c, o) == [k |-> "matches_all", pos |-> 0, row |-> RowID(c, o), max |-> 0]
PosListIt(o, m) == [k |-> "pos_list", pos |-> o, row |-> NoRow, max |-> m]

\* begin() of the first and second revision (non-const)
WrappedBegin(p) ==
  IF p.chunk # nullptr THEN MatchesAllIt(p.chunk_id, 0) ELSE VectorIt(1)

\* end() of the first revision returns Vector::begin() for a vector
FirstEnd(p) ==
  IF p.chunk # nullptr THEN MatchesAllIt(p.chunk_id, ChunkSize(p.chunk)) ELSE VectorIt(1)

\* end() of the second revision
SecondEnd(p) ==
  IF p.chunk # nullptr THEN MatchesAllIt(p.chunk_id, ChunkSize(p.chunk))
  ELSE VectorIt(Len(p.vec) + 1)

\* begin() / end() (mode "begin") and cbegin() / cend() (mode "cbegin"):
\* [ok, pl, b, e], pl the list after the two calls
BeginEnd(p, mode) ==
  CASE rev = "first" /\ mode = "begin" ->
         [ok |-> TRUE, pl |-> p, b |-> WrappedBegin(p), e |-> FirstEnd(p)]
    [] rev = "second" /\ mode = "begin" ->
         [ok |-> TRUE, pl |-> p, b |-> WrappedBegin(p), e |-> SecondEnd(p)]
    [] rev \in {"first", "second"} /\ mode = "cbegin" ->
         [ok |-> TRUE, pl |-> p, b |-> VectorIt(1), e |-> VectorIt(Len(p.vec) + 1)]
    [] rev = "lazy" ->
         LET m == materialize_if_necessary(p)
         IN  [ok |-> m.ok, pl |-> m.pl, b |-> VectorIt(1), e |-> VectorIt(Len(m.pl.vec) + 1)]
    [] rev = "poly" /\ p.kind = "PosList" ->
         [ok |-> TRUE, pl |-> p, b |-> VectorIt(1), e |-> VectorIt(Len(p.vec) + 1)]
    [] rev = "poly" /\ p.kind = "MatchesAllPosList" ->
         [ok |-> TRUE, pl |-> p, b |-> PosListIt(0, MatchesAllSize(p)),
          e |-> PosListIt(MatchesAllSize(p), MatchesAllSize(p))]
    [] rev = "poly" /\ p.kind = "SingleChunkPosList" ->
         [ok |-> TRUE, pl |-> p, b |-> PosListIt(0, SingleChunkSize(p)),
          e |-> PosListIt(SingleChunkSize(p), SingleChunkSize(p))]

\* operator++ / increment()
Increment(i) ==
  CASE i.k = "vector" -> [i EXCEPT !.pos = @ + 1]
    [] i.k = "matches_all" -> [i EXCEPT !.row.chunk_offset = @ + 1]
    [] i.k = "pos_list" -> [i EXCEPT !.pos = @ + 1]

\* operator== / equal(): the wrapped iterators, or _chunk_offset, compared
IteratorEqual(i, j) ==
  CASE i.k = "vector" -> i.pos = j.pos
    [] i.k = "matches_all" -> i.row = j.row
    [] i.k = "pos_list" -> i.pos = j.pos

\* operator* / dereference(): the outcomes of reading through the iterator
Dereference(p, i) ==
  CASE i.k = "vector" -> VectorIndex(p, i.pos - 1)
    [] i.k = "matches_all" -> {Ret(i.row, p)}
    [] i.k = "pos_list" ->
         IF debug /\ ~(i.pos < i.max) THEN {Failed(NoRow, p)}
         ELSE operator_index(p, i.pos)

(* ------------------------------ equality ------------------------------ *)
\* What a comparison gives: t, v as for the other calls ("diverge": the call
\* never returns), and both operands after the call.
EqRet(v, l, r) == [t |-> "ret", v |-> v, lhs |-> l, rhs |-> r]
EqDiverge(l, r) == [t |-> "diverge", v |-> FALSE, lhs |-> l, rhs |-> r]

\* pmr_vector<RowID> == pmr_vector<RowID>
VectorEqual(l, r) == EqRet(l.vec = r.vec, l, r)

\* the loop of matches_all_equal_to_materialized: every row of the vector is
\* {chunk id, 0}, {chunk id, 1}, ...
ExpectedRows(c, v) == \A i \in 1..Len(v) : v[i] = RowID(c, i - 1)

\* matches_all_equal_to_materialized(matches_all_list, materialized_list):
\* [t, v, pl], pl the match-all list after the call (common_chunk_id() of a
\* debug build materialises it)
matches_all_equal_to_materialized(m, v) ==
  IF debug /\ ~matches_complete_chunk(m) THEN Failed(FALSE, m)
  ELSE IF LazySize(m) # Len(v) THEN Ret(FALSE, m)
  ELSE LET c == LazyCommonChunkId(m)
       IN  IF c.t # "ret" THEN Failed(FALSE, c.pl)
           ELSE Ret(ExpectedRows(c.v, v), c.pl)

\* lazy revision: operator==(const PosList& lhs, const PosList& rhs)
LazyEqual(l, r) ==
  IF matches_complete_chunk(l) /\ matches_complete_chunk(r)
  THEN EqRet(l.chunk = r.chunk, l, r)
  ELSE IF matches_complete_chunk(l)
  THEN LET o == matches_all_equal_to_materialized(l, r.vec)
       IN  [t |-> o.t, v |-> o.v, lhs |-> o.pl, rhs |-> r]
  ELSE IF matches_complete_chunk(r)
  THEN LET o == matches_all_equal_to_materialized(r, l.vec)
       IN  [t |-> o.t, v |-> o.v, lhs |-> l, rhs |-> o.pl]
  ELSE VectorEqual(l, r)

\* MatchesAllPosList::operator==(const MatchesAllPosList* other)
MatchesAllEqual(l, r) == EqRet(l.chunk = r.chunk, l, r)

\* MatchesAllPosList::operator==(const AbstractPosList* other): return false
MatchesAllEqualAbstract(l, r) == EqRet(FALSE, l, r)

\* PosList::operator==(const AbstractPosList& other) { return other == *this; }
\* the call goes to other's virtual operator== with the operands swapped: a
\* PosList sends it back again, a MatchesAllPosList answers
PosListEqualAbstract(l, r) ==
  IF r.kind = "PosList" THEN EqDiverge(l, r)
  ELSE LET o == MatchesAllEqualAbstract(r, l)
       IN  [t |-> o.t, v |-> o.v, lhs |-> l, rhs |-> r]

\* lhs == rhs.  how = "typed": both static types are the dynamic ones;
\* how = "abstract": rhs is passed as an AbstractPosList.
Equal(l, r, how) ==
  CASE rev \in {"first", "second"} -> VectorEqual(l, r)
    [] rev = "lazy" -> LazyEqual(l, r)
    [] rev = "poly" /\ l.kind = "PosList" /\ r.kind = "PosList" /\ how = "typed" ->
         VectorEqual(l, r)
    [] rev = "poly" /\ l.kind = "PosList" /\ (r.kind # "PosList" \/ how = "abstract") ->
         PosListEqualAbstract(l, r)
    [] rev = "poly" /\ l.kind = "MatchesAllPosList" /\ r.kind = "MatchesAllPosList"
         /\ how = "typed" -> MatchesAllEqual(l, r)
    [] rev = "poly" /\ l.kind = "MatchesAllPosList"
         /\ (r.kind # "MatchesAllPosList" \/ how = "abstract") -> MatchesAllEqualAbstract(l, r)

(* --------------------------- initial states --------------------------- *)
\* the lists a producing operator can construct in revision r: from a vector,
\* over a whole chunk, over a range of an index
ConstructedVectors == {PosListFromVector(v) : v \in SeqsUpTo(RowIDs, MaxLen)}

ConstructedMatchAll(r) ==
  IF r = "poly"
  THEN {MatchesAllPosList(ch, c) : ch \in Chunks, c \in ChunkIDs}
  ELSE {PosListMatchAll(ch, c) : ch \in Chunks, c \in ChunkIDs}

ConstructedRanges(r) ==
  IF r = "poly"
  THEN {SingleChunkPosList(c, idx, b, e) :
          c \in ChunkIDs, idx \in SeqsUpTo(ChunkOffsets, MaxLen),
          b \in 1..(MaxLen + 1), e \in 1..(MaxLen + 1)}
  ELSE {}

Constructed(r) == ConstructedVectors \cup ConstructedMatchAll(r) \cup ConstructedRanges(r)

\* range_begin and range_end delimit a range of the index
WellFormed(p) ==
  p.kind = "SingleChunkPosList" =>
    (p.range_begin <= p.range_end /\ p.range_end <= Len(p.index) + 1)

\* a thread that has not called anything
Idle == [pc |-> "idle", op |-> "none", n |-> 0, chunk_size |-> 0, offset |-> 0,
         t |-> "none", v |-> 0]

Threads == 1..NumThreads

\* no list is shared between threads
NoReaders == [made |-> PosListFromVector(<<>>), th |-> [x \in Threads |-> Idle]]

NoIter == [live |-> FALSE, mode |-> "begin", cur |-> VectorIt(1), end |-> VectorIt(1),
           seen |-> <<>>, done |-> FALSE, failed |-> FALSE,
           again |-> FALSE, prev |-> <<>>]

Called(op, arg, o) == [op |-> op, arg |-> arg, t |-> o.t, v |-> o.v]

\* a list of one of the revisions R, just constructed
Constructing(R) ==
  /\ rev \in R
  /\ debug \in BOOLEAN
  /\ pl \in {p \in Constructed(rev) : WellFormed(p)}
  /\ other = PosListFromVector(<<>>)
  /\ last = [op |-> "construct", arg |-> 0, t |-> "ret", v |-> 0]
  /\ it = NoIter
  /\ readers = NoReaders
  /\ Apart

Init == Constructing(Revs)

InitFirst == Constructing({"first"})

InitSecond == Constructing({"second"})

InitLazy == Constructing({"lazy"})

InitPoly == Constructing({"poly"})

\* the program goes on after a call unless the call crashed or never returned
\* and there is no list to call after a constructor that failed
Running ==
  /\ last.t \in {"ret", "fail"}
  /\ ~(last.op = "construct" /\ last.t = "fail")

\* PosList has the modifiers; the other two types have none
Mutable(p) == p.kind = "PosList"

(* ------------------------------ actions ------------------------------- *)
DoSize ==
  /\ Running
  /\ last' = Called("size", 0, Ret(size(pl), pl))
  /\ it' = NoIter
  /\ UNCHANGED <<apart, readers, rev, debug, pl, other>>

DoEmpty ==
  /\ Running
  /\ last' = Called("empty", 0, Ret(empty(pl), pl))
  /\ it' = NoIter
  /\ UNCHANGED <<apart, readers, rev, debug, pl, other>>

DoIndex(n) ==
  /\ Running
  /\ \E o \in operator_index(pl, n) :
       /\ last' = Called("index", n, o)
       /\ pl' = o.pl
  /\ it' = NoIter
  /\ UNCHANGED <<apart, readers, rev, debug, other>>

DoReferencesSingleChunk ==
  /\ Running
  /\ LET o == references_single_chunk(pl)
     IN  /\ last' = Called("references_single_chunk", 0, o)
         /\ pl' = o.pl
  /\ it' = NoIter
  /\ UNCHANGED <<apart, readers, rev, debug, other>>

DoCommonChunkId ==
  /\ Running
  /\ LET o == common_chunk_id(pl)
     IN  /\ last' = Called("common_chunk_id", 0, o)
         /\ pl' = o.pl
  /\ it' = NoIter
  /\ UNCHANGED <<apart, readers, rev, debug, other>>

\* one call of a modifier, its outcome o
Modified(op, o) ==
  /\ last' = Called(op, 0, o)
  /\ pl' = o.pl
  /\ it' = NoIter
  /\ UNCHANGED <<apart, readers, rev, debug, other>>

\* guarantee_single_chunk() is called by a producer that has proven that all
\* entries share one chunk id ("callers must only call this when ...")
DoGuaranteeSingleChunk ==
  /\ Running /\ Mutable(pl)
  /\ AllSameChunk(pl.vec)
  /\ Modified("guarantee_single_chunk", Ret(0, guarantee_single_chunk(pl)))

DoPushBack(r) ==
  /\ Running /\ Mutable(pl)
  /\ ModifiedLen(pl) < MaxLen
  /\ Modified("push_back", push_back(pl, r))

DoPopBack ==
  /\ Running /\ Mutable(pl)
  /\ ModifiedLen(pl) > 0
  /\ Modified("pop_back", pop_back(pl))

DoInsert(k, r) ==
  /\ Running /\ Mutable(pl)
  /\ ModifiedLen(pl) < MaxLen
  /\ k <= ModifiedLen(pl)
  /\ Modified("insert", insert(pl, k, r))

DoResize(n, r) ==
  /\ Running /\ Mutable(pl)
  /\ Modified("resize", resize(pl, n, r))

DoClear ==
  /\ Running /\ Mutable(pl)
  /\ Modified("clear", clear(pl))

\* the list is move-constructed into a new object, which is used from then on
DoMove ==
  /\ Running /\ Mutable(pl)
  /\ Modified("move", Ret(0, MoveConstructed(pl)))

\* for (it = begin(); it != end(); ++it) f(*it): the loop head
Started(mode, again, prev) ==
  LET be == BeginEnd(pl, mode)
  IN  /\ pl' = be.pl
      /\ it' = [live |-> TRUE, mode |-> mode, cur |-> be.b, end |-> be.e,
                seen |-> <<>>, done |-> ~be.ok \/ IteratorEqual(be.b, be.e),
                failed |-> ~be.ok, again |-> again, prev |-> prev]
      /\ last' = [op |-> "iterate", arg |-> 0, t |-> "ret", v |-> 0]
      /\ UNCHANGED <<apart, readers, rev, debug, other>>

IterStart(mode) ==
  /\ Running
  /\ ~it.live
  /\ Started(mode, FALSE, <<>>)

\* the same loop run a second time over the same list
IterRestart ==
  /\ Running
  /\ it.live /\ it.done /\ ~it.failed /\ ~it.again
  /\ Started(it.mode, TRUE, it.seen)

\* one pass of the loop body: f(*it); ++it; it != end()
IterStep ==
  /\ Running
  /\ it.live /\ ~it.done
  /\ \E o \in Dereference(pl, it.cur) :
       /\ pl' = o.pl
       /\ last' = [op |-> "iterate", arg |-> 0, t |-> IF o.t = "crash" THEN "crash" ELSE "ret", v |-> 0]
       /\ it' = IF o.t = "ret"
                THEN [it EXCEPT !.seen = Append(@, o.v),
                                !.cur = Increment(it.cur),
                                !.done = IteratorEqual(Increment(it.cur), it.end)]
                ELSE [it EXCEPT !.done = TRUE, !.failed = TRUE]
  /\ UNCHANGED <<apart, readers, rev, debug, other>>

Next ==
  \/ DoSize
  \/ DoEmpty
  \/ \E n \in 0..(MaxLen + 1) : DoIndex(n)
  \/ DoReferencesSingleChunk
  \/ DoCommonChunkId
  \/ DoGuaranteeSingleChunk
  \/ \E r \in RowIDs : DoPushBack(r)
  \/ DoPopBack
  \/ \E k \in 0..MaxLen, r \in RowIDs : DoInsert(k, r)
  \/ \E n \in 0..MaxLen, r \in RowIDs : DoResize(n, r)
  \/ DoClear
  \/ DoMove
  \/ \E mode \in {"begin", "cbegin"} : IterStart(mode)
  \/ IterRestart
  \/ IterStep

Spec == Init /\ [][Next]_vars

\* one revision alone
SpecFirst == InitFirst /\ [][Next]_vars
SpecSecond == InitSecond /\ [][Next]_vars
SpecLazy == InitLazy /\ [][Next]_vars
SpecPoly == InitPoly /\ [][Next]_vars

\* the calls that give, read or could withdraw the single-chunk guarantee
NextGuarantee ==
  \/ \E n \in 0..(MaxLen + 1) : DoIndex(n)
  \/ DoReferencesSingleChunk
  \/ DoGuaranteeSingleChunk
  \/ \E r \in RowIDs : DoPushBack(r)
  \/ DoPopBack
  \/ \E k \in 0..MaxLen, r \in RowIDs : DoInsert(k, r)
  \/ \E n \in 0..MaxLen, r \in RowIDs : DoResize(n, r)
  \/ DoClear
  \/ DoMove

\* a list of the lazy revision under these calls
SpecGuarantee == InitLazy /\ [][NextGuarantee]_vars

(* ------------- reading a list that stands for part of a chunk --------- *)
\* the lists constructed over a whole chunk or over a range of an index
ConstructedOverChunk(r) == ConstructedMatchAll(r) \cup ConstructedRanges(r)

InitOverChunk ==
  /\ rev \in {"lazy", "poly"}
  /\ debug \in BOOLEAN
  /\ pl \in {p \in ConstructedOverChunk(rev) : WellFormed(p)}
  /\ other = PosListFromVector(<<>>)
  /\ last = [op |-> "construct", arg |-> 0, t |-> "ret", v |-> 0]
  /\ it = NoIter
  /\ readers = NoReaders
  /\ Apart

\* the calls a holder of a const list can make
NextRead ==
  \/ DoSize
  \/ DoEmpty
  \/ \E n \in 0..(MaxLen + 1) : DoIndex(n)
  \/ DoReferencesSingleChunk
  \/ DoCommonChunkId
  \/ \E mode \in {"begin", "cbegin"} : IterStart(mode)
  \/ IterRestart
  \/ IterStep

SpecOverChunk == InitOverChunk /\ [][NextRead]_vars

(* ------------------------ a materialized PosList ----------------------- *)
InitPosList ==
  /\ rev = "poly"
  /\ debug \in BOOLEAN
  /\ pl \in ConstructedVectors
  /\ other = PosListFromVector(<<>>)
  /\ last = [op |-> "construct", arg |-> 0, t |-> "ret", v |-> 0]
  /\ it = NoIter
  /\ readers = NoReaders
  /\ Apart

\* a PosList of the polymorphic family, constructed from a vector
SpecPosList == InitPosList /\ [][Next]_vars

(* ---------------- construction with any chunk identifier -------------- *)
\* the chunk ids a caller can pass to a constructor, the reserved one included
AnyChunkID == ChunkIDs \cup {INVALID_CHUNK_ID}

\* MatchesAllPosList(common_chunk, common_chunk_id), and in the lazy revision
\* PosList(matches_all_chunk, chunkID): the arguments are stored unchecked
ConstructMatchAll(r, ch, c) ==
  IF r = "poly" THEN Ret(c, MatchesAllPosList(ch, c)) ELSE Ret(c, PosListMatchAll(ch, c))

\* SingleChunkPosList(ChunkID chunkID): one revision stores the id unchecked,
\* the other (asserting) has DebugAssert(chunkID != INVALID_CHUNK_ID); the
\* producer then sets range_begin and range_end.  A failed constructor leaves
\* no list.
ConstructSingleChunkPosList(c, asserting, idx, b, e) ==
  IF asserting /\ debug /\ c = INVALID_CHUNK_ID
  THEN Failed(c, PosListFromVector(<<>>))
  ELSE Ret(c, SingleChunkPosList(c, idx, b, e))

\* what the constructors over a chunk or a range give for any arguments
ConstructOutcomes(r) ==
  {ConstructMatchAll(r, ch, c) : ch \in Chunks, c \in AnyChunkID}
  \cup (IF r = "poly"
        THEN {o \in {ConstructSingleChunkPosList(c[1], c[2], idx, be[1], be[2]) :
                      c \in AnyChunkID \X BOOLEAN, idx \in SeqsUpTo(ChunkOffsets, MaxLen),
                      be \in (1..(MaxLen + 1)) \X (1..(MaxLen + 1))} : WellFormed(o.pl)}
        ELSE {})

InitConstruct ==
  /\ rev \in {"lazy", "poly"}
  /\ debug \in BOOLEAN
  /\ \E o \in ConstructOutcomes(rev) :
       /\ pl = o.pl
       /\ last = [op |-> "construct", arg |-> o.v, t |-> o.t, v |-> 0]
  /\ other = PosListFromVector(<<>>)
  /\ it = NoIter
  /\ readers = NoReaders
  /\ Apart

\* a list constructed with any chunk id, then read
SpecConstruct == InitConstruct /\ [][NextRead]_vars

\* a list of the lazy revision constructed with any chunk id or from a vector,
\* then read and modified
InitLazyConstruct ==
  /\ rev = "lazy"
  /\ debug \in BOOLEAN
  /\ \/ \E ch \in Chunks, c \in AnyChunkID :
          /\ pl = ConstructMatchAll(rev, ch, c).pl
          /\ last = [op |-> "construct", arg |-> c, t |-> "ret", v |-> 0]
     \/ /\ pl \in {p \in Constructed(rev) : WellFormed(p)}
        /\ last = [op |-> "construct", arg |-> 0, t |-> "ret", v |-> 0]
  /\ other = PosListFromVector(<<>>)
  /\ it = NoIter
  /\ readers = NoReaders
  /\ Apart

SpecLazyConstruct == InitLazyConstruct /\ [][Next]_vars

(* ------------- a match-all list and the writer of its chunk ----------- *)
\* MatchesAllPosList(common_chunk, common_chunk_id) stores the chunk without
\* asking whether it is still mutable
InitChunk ==
  /\ rev = "poly"
  /\ debug \in BOOLEAN
  /\ \E ch \in Chunks, c \in ChunkIDs : pl = ConstructMatchAll(rev, ch, c).pl
  /\ chunk_mutable \in BOOLEAN
  /\ other = PosListFromVector(<<>>)
  /\ last = [op |-> "construct", arg |-> 0, t |-> "ret", v |-> 0]
  /\ it = NoIter
  /\ readers = NoReaders
  /\ filter = NoFilter
  /\ layout = NoLayout

\* the writer of a chunk that is still mutable appends a row: the chunk object
\* is the same, its row count one more
ChunkAppend ==
  /\ chunk_mutable
  /\ ChunkSize(pl.chunk) < MaxRows
  /\ pl' = [pl EXCEPT !.chunk = <<@[1], @[2] + 1>>]
  /\ last' = [op |-> "append", arg |-> 0, t |-> "ret", v |-> 0]
  /\ UNCHANGED <<rev, debug, other, it, readers, chunk_mutable, filter, layout>>

\* the chunk is finalized: immutable from then on
ChunkFinalize ==
  /\ chunk_mutable
  /\ chunk_mutable' = FALSE
  /\ last' = [op |-> "finalize", arg |-> 0, t |-> "ret", v |-> 0]
  /\ UNCHANGED <<rev, debug, pl, other, it, readers, filter, layout>>

NextChunk ==
  \/ NextRead
  \/ ChunkAppend
  \/ ChunkFinalize

SpecChunk == InitChunk /\ [][NextChunk]_vars

(* ------------------------------ dispatch ------------------------------ *)
\* resolve_pos_list_type(untyped_pos_list, func): func is called with the list
\* cast to PosList, or Fail("Unrecoqgnized PosList type encountered").
\* v counts the calls of func.
resolve_pos_list_type(p) ==
  IF p.kind = "PosList" THEN Ret(1, p) ELSE Failed(0, p)

DoResolvePosListType ==
  /\ Running
  /\ rev = "poly"
  /\ last' = Called("resolve_pos_list_type", 0, resolve_pos_list_type(pl))
  /\ it' = NoIter
  /\ UNCHANGED <<apart, readers, rev, debug, pl, other>>

NextDispatch == NextRead \/ DoResolvePosListType

\* a list of the polymorphic family handed to its consumers
SpecDispatch == InitPoly /\ [][NextDispatch]_vars

(* ----------------------------- memory usage --------------------------- *)
\* sizeof(Vector::value_type): RowID is two 32-bit numbers
SizeofRowID == 8
\* sizeof(this): a pointer of a 64-bit build
SizeofPointer == 8
\* sizeof *this of a MatchesAllPosList: vtable pointer, shared_ptr, ChunkID
SizeofMatchesAllPosList == 32
\* sizeof(*this) of a SingleChunkPosList: vtable pointer, two iterators, ChunkID
SizeofSingleChunkPosList == 32

\* PosList::memory_usage: size() * sizeof(Vector::value_type)
VectorMemoryUsage(p) == VectorSize(p) * SizeofRowID

\* MatchesAllPosList::memory_usage: sizeof *this
MatchesAllMemoryUsage(p) == SizeofMatchesAllPosList

\* SingleChunkPosList::memory_usage: sizeof(this) where it is defined in the
\* class, sizeof(*this) in the out-of-line revision
SingleChunkMemoryUsage(p, out_of_line) ==
  IF out_of_line THEN SizeofSingleChunkPosList ELSE SizeofPointer

\* memory_usage(mode) of the list, by dynamic type
memory_usage(p, out_of_line) ==
  CASE p.kind = "PosList" -> VectorMemoryUsage(p)
    [] p.kind = "MatchesAllPosList" -> MatchesAllMemoryUsage(p)
    [] p.kind = "SingleChunkPosList" -> SingleChunkMemoryUsage(p, out_of_line)

DoMemoryUsage(out_of_line) ==
  /\ Running
  /\ rev = "poly"
  /\ last' = Called("memory_usage", out_of_line, Ret(memory_usage(pl, out_of_line), pl))
  /\ it' = NoIter
  /\ UNCHANGED <<apart, readers, rev, debug, pl, other>>

NextMemory == NextRead \/ \E out_of_line \in BOOLEAN : DoMemoryUsage(out_of_line)

\* a list of the polymorphic family, read and asked for its memory usage
SpecMemory == InitPoly /\ [][NextMemory]_vars

(* ------------------- comparing two constructed lists ------------------ *)
\* the lists that have an operator==: SingleChunkPosList declares none
Comparable(r) == ConstructedVectors \cup ConstructedMatchAll(r)

ConstructingTwo(R) ==
  /\ rev \in R
  /\ debug \in BOOLEAN
  /\ pl \in Comparable(rev)
  /\ other \in Comparable(rev)
  /\ last = [op |-> "construct", arg |-> 0, t |-> "ret", v |-> 0]
  /\ it = NoIter
  /\ readers = NoReaders
  /\ Apart

InitEq == ConstructingTwo(Revs)

InitEqLazy == ConstructingTwo({"lazy"})

InitEqPoly == ConstructingTwo({"poly"})

\* pl == other, or other == pl when swap
DoCompare(swap, how) ==
  /\ Running
  /\ rev # "poly" => how = "typed"
  /\ LET o == IF swap THEN Equal(other, pl, how) ELSE Equal(pl, other, how)
     IN  /\ last' = [op |-> "eq", arg |-> [swap |-> swap, how |-> how], t |-> o.t, v |-> o.v]
         /\ pl' = IF swap THEN o.rhs ELSE o.lhs
         /\ other' = IF swap THEN o.lhs ELSE o.rhs
  /\ UNCHANGED <<apart, readers, rev, debug, it>>

NextEq == \E swap \in BOOLEAN, how \in {"typed", "abstract"} : DoCompare(swap, how)

SpecEq == InitEq /\ [][NextEq]_vars

\* the comparisons of the lazily materialising revision alone
SpecEqLazy == InitEqLazy /\ [][NextEq]_vars

\* the comparisons of the polymorphic family alone
SpecEqPoly == InitEqPoly /\ [][NextEq]_vars

(* ------------- the lazy list beside a materialized list --------------- *)
\* pl is a list of the lazy revision constructed over a whole chunk, other a
\* list constructed from the vector {c,0}..{c,n-1}; every call is made on both.
InitBeside ==
  /\ rev = "lazy"
  /\ debug \in BOOLEAN
  /\ \E ch \in Chunks, c \in ChunkIDs :
       /\ pl = PosListMatchAll(ch, c)
       /\ other = PosListFromVector([i \in 1..ChunkSize(ch) |-> RowID(c, i - 1)])
  /\ last = [op |-> "construct", arg |-> [t |-> "ret", v |-> 0], t |-> "ret", v |-> 0]
  /\ it = NoIter
  /\ readers = NoReaders
  /\ Apart

\* one call with outcome o on pl and outcome s on other
Beside(op, o, s) ==
  /\ Running /\ last.arg.t \in {"ret", "fail"}
  /\ pl' = o.pl
  /\ other' = s.pl
  /\ last' = [op |-> op, arg |-> [t |-> s.t, v |-> s.v], t |-> o.t, v |-> o.v]
  /\ it' = NoIter
  /\ UNCHANGED <<apart, readers, rev, debug>>

\* for (auto it = cbegin(); it != cend(); ++it): the rows the loop reads
IterateAll(p) ==
  LET be == BeginEnd(p, "cbegin")
  IN  IF be.ok THEN Ret(SubSeq(be.pl.vec, be.b.pos, be.e.pos - 1), be.pl)
      ELSE Failed(<<>>, be.pl)

\* p == x: the outcome, and p after the call
EqualTo(p, x) ==
  LET o == Equal(p, x, "typed") IN [t |-> o.t, v |-> o.v, pl |-> o.lhs]

NextBeside ==
  \/ Beside("size", Ret(size(pl), pl), Ret(size(other), other))
  \/ Beside("empty", Ret(empty(pl), pl), Ret(empty(other), other))
  \/ \E n \in 0..(MaxLen - 1) :
       /\ n < size(other)
       /\ \E o \in operator_index(pl, n), s \in operator_index(other, n) : Beside("index", o, s)
  \/ Beside("iterate", IterateAll(pl), IterateAll(other))
  \/ \E x \in Comparable("lazy") : Beside("eq", EqualTo(pl, x), EqualTo(other, x))
  \/ \E r \in RowIDs :
       /\ ModifiedLen(other) < MaxLen
       /\ Beside("push_back", push_back(pl, r), push_back(other, r))
  \/ /\ ModifiedLen(other) > 0
     /\ Beside("pop_back", pop_back(pl), pop_back(other))
  \/ \E k \in 0..MaxLen, r \in RowIDs :
       /\ ModifiedLen(other) < MaxLen /\ k <= ModifiedLen(other)
       /\ Beside("insert", insert(pl, k, r), insert(other, k, r))
  \/ \E n \in 0..MaxLen, r \in RowIDs : Beside("resize", resize(pl, n, r), resize(other, n, r))
  \/ Beside("clear", clear(pl), clear(other))

SpecBeside == InitBeside /\ [][NextBeside]_vars

(* --------------------- the counting quotient filter -------------------- *)
\* bounds: values 0..MaxValue, at most MaxInserts occurrences in a filter,
\* quotient sizes up to MaxQuotientSize
MaxValue == 1
MaxInserts == 2
MaxQuotientSize == 1

Values == 0..MaxValue

\* a position of a segment: null, or a value
Positions ==
  {[is_null |-> TRUE, value |-> 0]} \cup {[is_null |-> FALSE, value |-> v] : v \in Values}

RECURSIVE Pow2(_)
Pow2(n) == IF n = 0 THEN 1 ELSE 2 * Pow2(n - 1)

\* the 16 most significant bits of (x * 11400714819323198485) mod 2^64, the
\* multiplier taken in limbs of 16 bits, the least significant first
MultiplyHigh(x) ==
  LET FibonacciMultiplier == <<31765, 32586, 31161, 40503>>
      B  == Pow2(16)
      c1 == (x * FibonacciMultiplier[1]) \div B
      c2 == (x * FibonacciMultiplier[2] + c1) \div B
      c3 == (x * FibonacciMultiplier[3] + c2) \div B
  IN  (x * FibonacciMultiplier[4] + c3) % B

\* get_hash_bits(value, bit_count): (hash * multiplier) >> (64 - bit_count),
\* for bit_count up to 16; std::hash of an integer element is the value
get_hash_bits(value, bit_count) ==
  MultiplyHigh(value) \div Pow2(16 - bit_count)

\* the filter of the library: a counter per hash
qf_insert(slots, hash, count) == [slots EXCEPT ![hash] = @ + count]
qf_count_key_value(slots, hash) == slots[hash]

RECURSIVE TotalFrom(_, _)
TotalFrom(slots, h) == IF h < 0 THEN 0 ELSE slots[h] + TotalFrom(slots, h - 1)
\* the number of occurrences the filter holds
Total(f) == TotalFrom(f.slots, Pow2(f.hash_bits) - 1)

\* CountingQuotientFilter(quotient_size, remainder_size)
CountingQuotientFilter(quotient_size, remainder_size) ==
  IF \/ quotient_size = 0
     \/ quotient_size + remainder_size > 64
     \/ remainder_size \notin {2, 4, 8, 16, 32}
  THEN Failed(0, NoFilter)
  ELSE Ret(0, [hash_bits |-> quotient_size + remainder_size,
               slots |-> [h \in 0..(Pow2(quotient_size + remainder_size) - 1) |-> 0],
               values |-> {}, occurrences |-> 0])

\* insert(value, count)
CqfInsert(f, value, count) ==
  [f EXCEPT !.slots = qf_insert(@, get_hash_bits(value, f.hash_bits), count)]

\* a count(value) that would hash to one bit less than insert does
CqfCountShortHash(f, value) ==
  qf_count_key_value(f.slots, get_hash_bits(value, f.hash_bits - 1))

\* count(value)
CqfCount(f, value) ==
  qf_count_key_value(f.slots, get_hash_bits(value, f.hash_bits))

\* can_prune(predicate_type, value)
can_prune(f, predicate_type, value) ==
  IF debug /\ predicate_type # "Equals" THEN Failed(FALSE, f)
  ELSE Ret(CqfCount(f, value) = 0, f)

\* populate(segment): insert(position.value()) for every position not null
RECURSIVE populate(_, _)
populate(f, segment) ==
  IF segment = <<>> THEN f
  ELSE populate(IF Head(segment).is_null THEN f ELSE CqfInsert(f, Head(segment).value, 1),
                Tail(segment))

\* the positions of a segment that are not null
NonNull(segment) == {j \in 1..Len(segment) : ~segment[j].is_null}

\* a filter is constructed; values and occurrences record what the calls put in
InitFilter ==
  /\ rev = "poly"
  /\ debug \in BOOLEAN
  /\ \E q \in 0..MaxQuotientSize, r \in {2, 3} :
       LET o == CountingQuotientFilter(q, r)
       IN  /\ filter = o.pl
           /\ last = [op |-> "construct", arg |-> <<q, r>>, t |-> o.t, v |-> 0]
  /\ pl = PosListFromVector(<<>>)
  /\ other = PosListFromVector(<<>>)
  /\ it = NoIter
  /\ readers = NoReaders
  /\ chunk_mutable = FALSE
  /\ layout = NoLayout

FilterCalled(op, arg, o, vs, n) ==
  /\ last' = Called(op, arg, o)
  /\ filter' = [o.pl EXCEPT !.values = @ \cup vs, !.occurrences = @ + n]
  /\ UNCHANGED <<rev, debug, pl, other, it, readers, chunk_mutable, layout>>

DoCqfInsert(value, count) ==
  /\ Running
  /\ Total(filter) + count <= MaxInserts
  /\ FilterCalled("insert", [value |-> value, count |-> count],
                  Ret(0, CqfInsert(filter, value, count)),
                  IF count > 0 THEN {value} ELSE {}, count)

DoPopulate(segment) ==
  /\ Running
  /\ Total(filter) + Cardinality(NonNull(segment)) <= MaxInserts
  /\ FilterCalled("populate", segment, Ret(0, populate(filter, segment)),
                  {segment[j].value : j \in NonNull(segment)}, Cardinality(NonNull(segment)))

DoCqfCount(value) ==
  /\ Running
  /\ FilterCalled("count", value, Ret(CqfCount(filter, value), filter), {}, 0)

DoCanPrune(predicate_type, value) ==
  /\ Running
  /\ FilterCalled("can_prune", [predicate_type |-> predicate_type, value |-> value],
                  can_prune(filter, predicate_type, value), {}, 0)

NextFilter ==
  \/ \E value \in Values, count \in 0..MaxInserts : DoCqfInsert(value, count)
  \/ \E segment \in SeqsUpTo(Positions, MaxLen) : DoPopulate(segment)
  \/ \E value \in Values : DoCqfCount(value)
  \/ \E predicate_type \in {"Equals", "LessThan"}, value \in Values : DoCanPrune(predicate_type, value)

SpecFilter == InitFilter /\ [][NextFilter]_vars

(* --------------------------- VizRecordLayout --------------------------- *)
\* bounds: a layout of at most MaxElements elements, a sublayout of at most
\* MaxElements labels, labels of at most MaxLabelLen characters
MaxElements == 2
MaxLabelLen == 1

\* a string is the sequence of its characters
Chars == {"a", "|"}
Labels == SeqsUpTo(Chars, MaxLabelLen)

\* an element of content: a std::string, or a VizRecordLayout holding labels
LabelElement(str) == [is_label |-> TRUE, label |-> str, sub |-> <<>>]
SublayoutElement(labels) == [is_label |-> FALSE, label |-> <<>>, sub |-> labels]

\* escape(input): a backslash before each of < > { } | [ ]
RECURSIVE escape(_)
escape(input) ==
  IF input = <<>> THEN <<>>
  ELSE (IF Head(input) \in {"<", ">", "{", "}", "|", "[", "]"}
        THEN <<"\\", Head(input)>>
        ELSE <<Head(input)>>) \o escape(Tail(input))

\* to_label_string() of a layout with this content
RECURSIVE to_label_string(_)
RECURSIVE ElementsString(_, _)
ElementsString(content, element_idx) ==
  IF element_idx > Len(content) THEN <<>>
  ELSE LET element == content[element_idx]
       IN  (IF element.is_label THEN element.label
            ELSE to_label_string([i \in 1..Len(element.sub) |-> LabelElement(element.sub[i])]))
           \o (IF element_idx + 1 <= Len(content) THEN <<" ", "|", " ">> ELSE <<>>)
           \o ElementsString(content, element_idx + 1)

to_label_string(content) == <<"{">> \o ElementsString(content, 1) \o <<"}">>

\* content.emplace_back(element): the vector moves its elements to new storage
\* when its size has reached its capacity, and doubles the capacity; a
\* reference the caller holds then refers to the old storage
content_emplace_back(l, element) ==
  LET reallocates == Len(l.content) = l.capacity
  IN  [l EXCEPT !.content = Append(@, element),
                !.capacity = IF ~reallocates THEN @ ELSE IF @ = 0 THEN 1 ELSE 2 * @,
                !.ref = IF reallocates THEN [@ EXCEPT !.valid = FALSE] ELSE @]

InitLayout ==
  /\ rev = "poly"
  /\ debug = FALSE
  /\ layout = NoLayout
  /\ last = [op |-> "construct", arg |-> 0, t |-> "ret", v |-> 0]
  /\ pl = PosListFromVector(<<>>)
  /\ other = PosListFromVector(<<>>)
  /\ it = NoIter
  /\ readers = NoReaders
  /\ chunk_mutable = FALSE
  /\ filter = NoFilter

LayoutCalled(op, arg, t, v) ==
  /\ last' = [op |-> op, arg |-> arg, t |-> t, v |-> v]
  /\ UNCHANGED <<rev, debug, pl, other, it, readers, chunk_mutable, filter>>

\* layout.add_label(label)
DoAddLabel(label) ==
  /\ Running
  /\ Len(layout.content) < MaxElements
  /\ layout' = [content_emplace_back(layout, LabelElement(escape(label)))
                  EXCEPT !.added = Append(@, LabelElement(label))]
  /\ LayoutCalled("add_label", label, "ret", 0)

\* auto& sub = layout.add_sublayout(), or the call with the caller going on to
\* hold the reference an earlier call returned
DoAddSublayout(keep) ==
  /\ Running
  /\ Len(layout.content) < MaxElements
  /\ keep => layout.ref.held
  /\ layout' = [content_emplace_back(layout, SublayoutElement(<<>>))
                  EXCEPT !.ref = IF keep THEN @
                                 ELSE [held |-> TRUE, valid |-> TRUE, idx |-> Len(layout.content) + 1],
                         !.added = Append(@, SublayoutElement(<<>>))]
  /\ LayoutCalled("add_sublayout", keep, "ret", 0)

\* sub.add_label(label) through the reference held.  A reference into storage
\* the vector has left is dangling: the label goes to the freed sublayout and
\* not to the parent's content, or the program crashes.
DoAddLabelThrough(label) ==
  /\ Running
  /\ layout.ref.held
  /\ Len(layout.added[layout.ref.idx].sub) < MaxElements
  /\ LET i == layout.ref.idx
         intended == [layout.added EXCEPT ![i].sub = Append(@, label)]
     IN  IF layout.ref.valid
         THEN /\ layout' = [layout EXCEPT !.content[i].sub = Append(@, escape(label)),
                                          !.added = intended]
              /\ LayoutCalled("add_label_through", label, "ret", 0)
         ELSE \E t \in {"ret", "crash"} :
                /\ layout' = [layout EXCEPT !.added = intended]
                /\ LayoutCalled("add_label_through", label, t, 0)

\* layout.to_label_string()
DoToLabelString ==
  /\ Running
  /\ UNCHANGED layout
  /\ LayoutCalled("to_label_string", 0, "ret", to_label_string(layout.content))

NextLayout ==
  \/ \E label \in Labels : DoAddLabel(label)
  \/ \E keep \in BOOLEAN : DoAddSublayout(keep)
  \/ \E label \in Labels : DoAddLabelThrough(label)
  \/ DoToLabelString

SpecLayout == InitLayout /\ [][NextLayout]_vars

(* ------------------- threads reading one shared list ------------------ *)
\* One list of the lazy revision is shared by the threads, which call its
\* const members without a lock.  A call runs statement by statement, and the
\* statements of the threads interleave.
InitReaders ==
  /\ rev = "lazy"
  /\ debug \in BOOLEAN
  /\ pl \in ConstructedVectors \cup ConstructedMatchAll("lazy")
  /\ other = PosListFromVector(<<>>)
  /\ last = [op |-> "construct", arg |-> 0, t |-> "ret", v |-> 0]
  /\ it = NoIter
  /\ readers = [made |-> pl, th |-> [x \in Threads |-> Idle]]
  /\ Apart

\* a dereferenced null pointer ends the process
Alive == \A x \in Threads : readers.th[x].t # "crash"

\* thread x goes on to r
Moved(x, r) == readers' = [readers EXCEPT !.th[x] = r]

\* thread x returns from its call with outcome o
Returned(x, o) ==
  Moved(x, [readers.th[x] EXCEPT !.pc = "idle", !.t = o.t, !.v = o.v])

\* thread x calls size(), operator[](n) const with n below the size the list
\* was constructed with, or cbegin()
ReaderCall(x, op, n) ==
  /\ Alive
  /\ readers.th[x].pc = "idle"
  /\ IF op = "index" THEN n < LazySize(readers.made) ELSE n = 0
  /\ Moved(x, [Idle EXCEPT !.pc = "test", !.op = op, !.n = n])
  /\ UNCHANGED <<apart, rev, debug, pl, other, last, it>>

\* if (matches_complete_chunk()): the test of size() and of
\* _materialize_if_necessary()
ReaderTest(x) ==
  LET r == readers.th[x]
  IN  /\ Alive
      /\ r.pc = "test"
      /\ Moved(x, [r EXCEPT !.pc = IF ~matches_complete_chunk(pl) THEN "access"
                                   ELSE IF r.op = "size" THEN "chunk_size"
                                   ELSE "materialize"])
      /\ UNCHANGED <<apart, rev, debug, pl, other, last, it>>

\* _matches_all_chunk->size() through a pointer that may have been reset since
\* the test: any row count, or a crash
NullChunkSize == {[t |-> "crash", v |-> 0]} \cup {[t |-> "ret", v |-> k] : k \in 0..MaxRows}

\* size(): return _matches_all_chunk->size();
ReaderChunkSize(x) ==
  /\ Alive
  /\ readers.th[x].pc = "chunk_size"
  /\ \E o \in (IF pl.chunk # nullptr THEN {[t |-> "ret", v |-> ChunkSize(pl.chunk)]}
               ELSE NullChunkSize) : Returned(x, o)
  /\ UNCHANGED <<apart, rev, debug, pl, other, last, it>>

\* _materialize(): the three DebugAsserts, then
\* ChunkOffset chunk_size = _matches_all_chunk->size();
ReaderMaterialize(x) ==
  LET r == readers.th[x]
  IN  /\ Alive
      /\ r.pc = "materialize"
      /\ IF debug /\ (pl.chunk = nullptr \/ pl.chunk_id = INVALID_CHUNK_ID \/ Len(pl.vec) # 0)
         THEN Returned(x, [t |-> "fail", v |-> 0])
         ELSE \E o \in (IF pl.chunk # nullptr THEN {[t |-> "ret", v |-> ChunkSize(pl.chunk)]}
                        ELSE NullChunkSize) :
                IF o.t = "crash" THEN Returned(x, o)
                ELSE Moved(x, [r EXCEPT !.pc = "resize", !.chunk_size = o.v])
      /\ UNCHANGED <<apart, rev, debug, pl, other, last, it>>

\* Vector::resize(chunk_size): new entries are value-initialised
ReaderResize(x) ==
  LET r == readers.th[x]
  IN  /\ Alive
      /\ r.pc = "resize"
      /\ pl' = [pl EXCEPT !.vec = [i \in 1..r.chunk_size |-> IF i <= Len(@) THEN @[i] ELSE NoRow]]
      /\ Moved(x, [r EXCEPT !.pc = "fill", !.offset = 0])
      /\ UNCHANGED <<apart, rev, debug, other, last, it>>

\* for (offset = 0; offset < chunk_size; ++offset)
\*   Vector::operator[](offset) = {_matches_all_chunk_id, offset};
\* and after the loop _matches_all_chunk = nullptr;
\* _matches_all_chunk_id = INVALID_CHUNK_ID;
ReaderFill(x) ==
  LET r == readers.th[x]
  IN  /\ Alive
      /\ r.pc = "fill"
      /\ IF r.offset < r.chunk_size
         THEN IF r.offset < Len(pl.vec)
              THEN /\ pl' = [pl EXCEPT !.vec[r.offset + 1] = RowID(pl.chunk_id, r.offset)]
                   /\ Moved(x, [r EXCEPT !.offset = @ + 1])
              ELSE /\ pl' = pl
                   /\ Returned(x, [t |-> "crash", v |-> 0])
         ELSE /\ pl' = [pl EXCEPT !.chunk = nullptr, !.chunk_id = INVALID_CHUNK_ID]
              /\ Moved(x, [r EXCEPT !.pc = "access"])
      /\ UNCHANGED <<apart, rev, debug, other, last, it>>

\* return Vector::size(); / return Vector::operator[](n); / return Vector::cbegin();
ReaderAccess(x) ==
  LET r == readers.th[x]
  IN  /\ Alive
      /\ r.pc = "access"
      /\ \E o \in (CASE r.op = "size" -> {Ret(Len(pl.vec), pl)}
                     [] r.op = "index" -> VectorIndex(pl, r.n)
                     [] r.op = "cbegin" -> {Ret(0, pl)}) : Returned(x, o)
      /\ UNCHANGED <<apart, rev, debug, pl, other, last, it>>

NextReaders ==
  \E x \in Threads :
    \/ \E op \in {"size", "index", "cbegin"}, n \in 0..(MaxRows - 1) : ReaderCall(x, op, n)
    \/ ReaderTest(x)
    \/ ReaderChunkSize(x)
    \/ ReaderMaterialize(x)
    \/ ReaderResize(x)
    \/ ReaderFill(x)
    \/ ReaderAccess(x)

SpecReaders == InitReaders /\ [][NextReaders]_vars

(* =============================== claims =============================== *)
\* The state as one printed value: the values a call returns are of several
\* types (a count, a truth value, a RowID), which are compared as printed.
Observed == ToString(vars)

\* The sequence of RowIDs a list denotes: the vector of a materialized list,
\* {c,0}..{c,n-1} of a list over a whole chunk c of n rows, {c,o} for the
\* offsets o of the range of a range list.
Logical(p) ==
  IF p.kind = "SingleChunkPosList"
  THEN [i \in 1..(p.range_end - p.range_begin) |-> RowID(p.chunk_id, p.index[p.range_begin + i - 1])]
  ELSE IF p.chunk # nullptr
  THEN [i \in 1..ChunkSize(p.chunk) |-> RowID(p.chunk_id, i - 1)]
  ELSE p.vec

\* C1: two lists that denote the same sequence of RowIDs compare equal, in
\* both orders and whatever their representations: the comparison returns true.
C1_EqualityComplete ==
  (last.op = "eq" /\ Logical(pl) = Logical(other)) => (last.t = "ret" /\ last.v)

\* C2: equality is sound: a comparison that returns true was between two lists
\* that denote the same sequence of RowIDs.
C2_EqualitySound ==
  (last.op = "eq" /\ last.t = "ret" /\ last.v) => Logical(pl) = Logical(other)

\* C3: whenever references_single_chunk() returns true on a non-empty list,
\* every element has the chunk id common_chunk_id() returns; and no flagged
\* list holds two different chunk ids.
C3_SingleChunkInvariant ==
  /\ (last.op = "references_single_chunk" /\ last.t = "ret" /\ last.v /\ size(pl) > 0) =>
       LET c == common_chunk_id(pl)
       IN  /\ c.t = "ret"
           /\ \A i \in 0..(size(pl) - 1) :
                \A o \in operator_index(c.pl, i) : o.t = "ret" /\ o.v.chunk_id = c.v
  /\ (pl.kind = "PosList" /\ pl.single) => AllSameChunk(pl.vec)

\* C4: operator[](i) with i >= size() fails with an error and returns no RowID.
C4_IndexOutOfRangeFails ==
  (last.op = "index" /\ last.arg >= size(pl)) => last.t = "fail"

\* C5: common_chunk_id() on a list that denotes the empty sequence fails and
\* returns no chunk id, in every representation.
C5_CommonChunkIdOfEmptyFails ==
  (last.op = "common_chunk_id" /\ Logical(pl) = <<>>) => last.t = "fail"

\* C6: common_chunk_id() on a non-empty list whose references_single_chunk()
\* is false fails and does not return the chunk id of the first element.
C6_CommonChunkIdNeedsGuarantee ==
  (/\ last.op = "common_chunk_id"
   /\ size(pl) > 0
   /\ references_single_chunk(pl).t = "ret"
   /\ ~references_single_chunk(pl).v) => last.t = "fail"

\* C7: the element read after incrementing begin() i times is operator[](i),
\* for every index i < size().
C7_IndexAgreesWithIteration ==
  it.live =>
    \A i \in 1..Len(it.seen) :
      (i - 1 < size(pl)) => operator_index(pl, i - 1) = {Ret(it.seen[i], pl)}

\* C8: a loop from begin() to end() ends after exactly size() increments,
\* having read the elements 0..size()-1 in order without a failed dereference,
\* and a second loop over the same list reads the same sequence.
C8_IterationVisitsAll ==
  (it.live /\ it.done) =>
    /\ ~it.failed
    /\ Len(it.seen) = size(pl)
    /\ \A i \in 1..Len(it.seen) : operator_index(pl, i - 1) = {Ret(it.seen[i], pl)}
    /\ it.again => it.seen = it.prev

\* C9: size() of a list over a whole chunk is the row count of that chunk.
C9_MatchAllSize ==
  (last.op = "size" /\ pl.chunk # nullptr) => last.v = ChunkSize(pl.chunk)

\* C10: empty() is true exactly when size() is 0, and a list over a whole
\* chunk that has rows does not report empty.
C10_EmptyIffSizeZero ==
  last.op = "empty" =>
    /\ last.v <=> (size(pl) = 0)
    /\ (pl.chunk # nullptr /\ ChunkSize(pl.chunk) > 0) => ~last.v

\* C11: operator[](i) on a list constructed over a whole chunk with id c and n
\* rows returns the RowID {c, i}, for every i < n.
C11_MatchAllIndex ==
  [][(/\ last'.op = "index"
      /\ pl.chunk # nullptr /\ pl.vec = <<>>
      /\ last'.arg < ChunkSize(pl.chunk))
     => (last'.t = "ret" /\ last'.v = RowID(pl.chunk_id, last'.arg))]_Observed

\* C12: common_chunk_id() on a list constructed over a whole chunk that has
\* rows returns the chunk id given at construction, and still does once a call
\* has materialised the list.
C12_MatchAllCommonChunkId ==
  [][/\ (/\ last'.op = "common_chunk_id"
         /\ pl.chunk # nullptr /\ pl.vec = <<>> /\ ChunkSize(pl.chunk) > 0)
        => (last'.t = "ret" /\ last'.v = pl.chunk_id)
     /\ (/\ pl.chunk # nullptr /\ pl.vec = <<>> /\ ChunkSize(pl.chunk) > 0
         /\ pl'.chunk = nullptr
         /\ last'.op \in {"index", "iterate", "references_single_chunk", "common_chunk_id"})
        => (common_chunk_id(pl').t = "ret" /\ common_chunk_id(pl').v = pl.chunk_id)]_Observed

\* C13: a list in the representation that stands for a whole chunk
\* (matches_complete_chunk(), a MatchesAllPosList) or for a range of one chunk
\* (a SingleChunkPosList) answers references_single_chunk() with true.
C13_OverChunkIsSingleChunk ==
  (matches_complete_chunk(pl) \/ pl.kind \in {"MatchesAllPosList", "SingleChunkPosList"}) =>
    (references_single_chunk(pl).t = "ret" /\ references_single_chunk(pl).v)

\* C13 witness: references_single_chunk() returned true on a list of the lazy
\* revision that still stands for a whole chunk with rows.
C13_Witness ==
  /\ rev = "lazy" /\ last.op = "references_single_chunk"
  /\ last.t = "ret" /\ last.v = TRUE
  /\ matches_complete_chunk(pl) /\ ChunkSize(pl.chunk) > 0

\* C14: a read-only call (size, empty, const operator[], iteration of a const
\* list, references_single_chunk, common_chunk_id, ==) leaves the list as it
\* was: representation, vector, chunk reference and flag.
C14_ReadsLeaveListUnchanged ==
  [][last'.op \in {"size", "empty", "index", "iterate", "references_single_chunk",
                   "common_chunk_id", "eq"}
     => pl' = pl]_Observed

\* the statements of _materialize() that write the vector
Writing == {"resize", "fill"}

\* C15: threads that read a shared list concurrently without a lock reach no
\* bad state: no two of them are writing the list's fields at once, no
\* assertion fails and nothing crashes, and every size() and operator[] returns
\* the value of the sequence the list was constructed to denote.
C15_ConcurrentReadsAreSafe ==
  /\ \A x, y \in Threads :
       (x # y) => ~(readers.th[x].pc \in Writing /\ readers.th[y].pc \in Writing)
  /\ \A x \in Threads : readers.th[x].t \notin {"fail", "crash"}
  /\ \A x \in Threads :
       (readers.th[x].pc = "idle" /\ readers.th[x].t = "ret") =>
         CASE readers.th[x].op = "size" -> readers.th[x].v = Len(Logical(readers.made))
           [] readers.th[x].op = "index" ->
                readers.th[x].v = Logical(readers.made)[readers.th[x].n + 1]
           [] OTHER -> TRUE

\* C16: resolve_pos_list_type calls the callback exactly once for a
\* materialized list, a list over a whole chunk and a range list, and fails
\* without calling it only for a type that is none of these.
C16_DispatchCoversRepresentations ==
  last.op = "resolve_pos_list_type" =>
    IF pl.kind \in {"PosList", "MatchesAllPosList", "SingleChunkPosList"}
    THEN last.t = "ret" /\ last.v = 1
    ELSE last.t = "fail" /\ last.v = 0

\* C17: constructing a list over a whole chunk or over a range with
\* INVALID_CHUNK_ID fails at construction, and no such list has the invalid id.
C17_InvalidChunkIdRejected ==
  /\ (last.op = "construct" /\ last.arg = INVALID_CHUNK_ID) => last.t = "fail"
  /\ (matches_complete_chunk(pl) \/ pl.kind \in {"MatchesAllPosList", "SingleChunkPosList"})
       => pl.chunk_id # INVALID_CHUNK_ID

\* C18: for a range list over chunk id c whose range holds the offsets
\* o_0..o_(n-1): size() returns n, empty() returns true exactly when n = 0, and
\* operator[](i) returns {c, o_i} for every i < n.
C18_RangeList ==
  pl.kind = "SingleChunkPosList" =>
    /\ last.op = "size" => last.v = Len(Logical(pl))
    /\ last.op = "empty" => (last.v <=> (Len(Logical(pl)) = 0))
    /\ (last.op = "index" /\ last.arg < Len(Logical(pl))) =>
         (last.t = "ret" /\ last.v = Logical(pl)[last.arg + 1])

\* C18 witness: operator[](0) returned the offset at range_begin of a range
\* that starts after the first entry of the index.
C18_Witness ==
  /\ pl.kind = "SingleChunkPosList" /\ pl.range_begin = 2 /\ pl.range_end = 3
  /\ last.op = "index" /\ last.arg = 0 /\ last.t = "ret"
  /\ last.v = RowID(pl.chunk_id, pl.index[2])

Mixed(p) == ~AllSameChunk(Logical(p))

\* C20 as stated: in a debug build, references_single_chunk() and
\* common_chunk_id() on a flagged list fail exactly when the list holds two
\* entries with different chunk ids; otherwise the scan passes and
\* common_chunk_id() returns the shared id.
C20_DebugScanAsStated ==
  (debug /\ pl.kind = "PosList" /\ pl.single) =>
    /\ last.op = "references_single_chunk" =>
         /\ (last.t = "fail") <=> Mixed(pl)
         /\ last.t = "ret" => last.v = TRUE
    /\ last.op = "common_chunk_id" =>
         /\ (last.t = "fail") <=> Mixed(pl)
         /\ last.t = "ret" => last.v = Logical(pl)[1].chunk_id

\* C20 amended: in a debug build, references_single_chunk() on a flagged list
\* fails exactly when the list holds two entries with different chunk ids and
\* otherwise returns true; common_chunk_id() on a flagged list fails exactly
\* when the list holds such entries or is empty, and otherwise returns the id
\* all entries share.
C20_DebugScan ==
  (debug /\ pl.kind = "PosList" /\ pl.single) =>
    /\ last.op = "references_single_chunk" =>
         /\ (last.t = "fail") <=> Mixed(pl)
         /\ last.t = "ret" => last.v = TRUE
    /\ last.op = "common_chunk_id" =>
         /\ (last.t = "fail") <=> (Mixed(pl) \/ Logical(pl) = <<>>)
         /\ last.t = "ret" => last.v = Logical(pl)[1].chunk_id

\* C20 witness: in a debug build the scan of references_single_chunk() failed
\* on a flagged list of two entries with different chunk ids.
C20_Witness ==
  /\ debug /\ pl.kind = "PosList" /\ pl.single
  /\ Len(pl.vec) = 2 /\ pl.vec[1].chunk_id # pl.vec[2].chunk_id
  /\ last.op = "references_single_chunk" /\ last.t = "fail"

\* C21: memory_usage of a materialized list is size() * sizeof(RowID); of a
\* list over a whole chunk or a range it is the size of the list object itself,
\* whatever size() is.
C21_MemoryUsage ==
  last.op = "memory_usage" =>
    /\ last.t = "ret"
    /\ last.v = CASE pl.kind = "PosList" -> size(pl) * SizeofRowID
                  [] pl.kind = "MatchesAllPosList" -> SizeofMatchesAllPosList
                  [] pl.kind = "SingleChunkPosList" -> SizeofSingleChunkPosList

\* C22: a comparison whose left operand is a PosList and whose right operand
\* is passed as an AbstractPosList returns true or false; the call does not
\* go back and forth between the operands without end.
C22_AbstractEqualTerminates ==
  (/\ last.op = "eq"
   /\ last.arg.how = "abstract"
   /\ (IF last.arg.swap THEN other ELSE pl).kind = "PosList")
  => (last.t = "ret" /\ last.v \in BOOLEAN)

\* a is a list over a whole chunk of zero rows, b an empty materialized list
EmptyPair(a, b) ==
  /\ matches_complete_chunk(a) /\ ChunkSize(a.chunk) = 0
  /\ ~matches_complete_chunk(b) /\ b.vec = <<>>

\* C23: operator== returns true or false for every pair of lists and raises no
\* assertion failure; a list over a chunk of zero rows compared with an empty
\* materialized list gives true.
C23_EqualIsTotal ==
  last.op = "eq" =>
    /\ last.t = "ret" /\ last.v \in BOOLEAN
    /\ (EmptyPair(pl, other) \/ EmptyPair(other, pl)) => last.v = TRUE

\* C24: the list move-constructed from a source list has the content the
\* source had before the move: the same size(), the same RowID at every index,
\* the same references_single_chunk() and the same matches_complete_chunk().
C24_MovePreservesContent ==
  [][last'.op = "move" =>
       /\ size(pl') = size(pl)
       /\ Logical(pl') = Logical(pl)
       /\ references_single_chunk(pl').v = references_single_chunk(pl).v
       /\ matches_complete_chunk(pl') = matches_complete_chunk(pl)]_Observed

\* C25: every call in a sequence of calls on a lazy list constructed over a
\* chunk gives the result that the same call gives on a materialized list that
\* started as {c,0}..{c,n-1} and received the same calls.
C25_LazyRefinesMaterialized ==
  last.op # "construct" => (last.t = last.arg.t /\ last.v = last.arg.v)

\* C26: in every state of a lazy list, a list that matches a complete chunk
\* has a valid chunk id and an empty vector, the chunk pointer is set exactly
\* when the stored chunk id is valid, and no modifier (each of which
\* materialises first) ends with a failed assertion.
C26_MaterializePreconditions ==
  rev = "lazy" =>
    /\ matches_complete_chunk(pl) => (pl.chunk_id # INVALID_CHUNK_ID /\ pl.vec = <<>>)
    /\ (pl.chunk # nullptr) <=> (pl.chunk_id # INVALID_CHUNK_ID)
    /\ last.op \in {"push_back", "pop_back", "insert", "resize"} => last.t # "fail"

\* references_single_chunk() of the list returns true / returns false (a
\* failed assertion is neither)
ReturnsTrue(p) ==
  LET o == references_single_chunk(p) IN o.t = "ret" /\ o.v = TRUE

ReturnsFalse(p) ==
  LET o == references_single_chunk(p) IN o.t = "ret" /\ o.v = FALSE

C28_SizeStable ==
  [][pl.kind = "MatchesAllPosList" =>
       /\ size(pl') = size(pl)
       /\ BeginEnd(pl', "begin").b = BeginEnd(pl, "begin").b
       /\ BeginEnd(pl', "begin").e = BeginEnd(pl, "begin").e]_Observed

RECURSIVE JoinedByBar(_)
JoinedByBar(strs) ==
  IF strs = <<>> THEN <<>>
  ELSE IF Len(strs) = 1 THEN strs[1]
  ELSE strs[1] \o <<" ", "|", " ">> \o JoinedByBar(Tail(strs))

InBraces(str) == <<"{">> \o str \o <<"}">>

\* what to_label_string() is to give for the labels and sublayouts added
ExpectedLabelString(added) ==
  InBraces(JoinedByBar(
    [i \in 1..Len(added) |->
       IF added[i].is_label THEN escape(added[i].label)
       ELSE InBraces(JoinedByBar([j \in 1..Len(added[i].sub) |-> escape(added[i].sub[j])]))]))

\* C30: to_label_string() gives, in one pair of braces and separated by " | ",
\* every element in insertion order, a sublayout as a nested group of the
\* escaped labels added through the reference add_sublayout() returned, also
\* when the parent got further elements after the sublayout was created; and
\* adding a label through that reference does not crash.
C30_SublayoutLabelsAppear ==
  /\ last.op = "to_label_string" => last.v = ExpectedLabelString(layout.added)
  /\ last.op = "add_label_through" => last.t = "ret"

====
